---------------------------- MODULE Spec2Model ----------------------------
(***************************************************************************)
(* Flight lookup: the route handler GET over MOCK_FLIGHTS                  *)
(* (src/src/app/components/FlightCard.tsx, lines 77-128) and the search    *)
(* page Home with its handleSearch (src/unnamed/part_000).                 *)
(*                                                                         *)
(* A JavaScript string is a sequence of one-character strings.  A value of *)
(* type string | null is a record [isNull, str].                           *)
(***************************************************************************)
EXTENDS Integers, Sequences, FiniteSets, TLC

\* ------------------------------------------------------------ bounds
\* Number of requests the server handles in one behaviour (request slots).
MaxRequests == 2
\* Longest generated query of the store-generic specification.
MaxQueryLen == 2
\* Longest generated store of the store-generic specification.
MaxStoreLen == 3

Requests == 1..MaxRequests

\* ------------------------------------------------------------ strings
UpperCase == <<"A", "D", "L", "U", "Z">>
LowerCase == <<"a", "d", "l", "u", "z">>

\* String.prototype.toLowerCase on one character.
lowerChar(c) ==
    IF \E i \in 1..Len(UpperCase) : UpperCase[i] = c
    THEN LowerCase[CHOOSE i \in 1..Len(UpperCase) : UpperCase[i] = c]
    ELSE c

\* String.prototype.toLowerCase.
toLowerCase(s) == [i \in 1..Len(s) |-> lowerChar(s[i])]

\* String.prototype.includes: sub occurs in s at some position.
includes(s, sub) ==
    \E i \in 0..(Len(s) - Len(sub)) : SubSeq(s, i + 1, i + Len(sub)) = sub

\* All strings over chars of length at most n.
StringsUpTo(chars, n) == UNION {[1..k -> chars] : k \in 0..n}

\* ------------------------------------------------------------ URL
null == [isNull |-> TRUE, str |-> <<>>]
String(s) == [isNull |-> FALSE, str |-> s]

HexDigits == {"0", "1", "2", "3", "4", "5", "6", "7", "8", "9",
              "A", "B", "C", "D", "E", "F"}

\* The character a percent escape %hl stands for.  Only the escapes of the
\* characters modelled are told apart; "?" stands for every other character.
percentChar(h, l) ==
    CASE h = "2" /\ l = "0" -> " "
      [] h = "2" /\ l = "5" -> "%"
      [] h = "2" /\ l = "B" -> "+"
      [] OTHER -> "?"

\* URLSearchParams parsing of a raw value: '+' is a space, %hl is decoded,
\* a '%' not followed by two hex digits stays.
RECURSIVE urlDecode(_)
urlDecode(raw) ==
    IF raw = <<>> THEN <<>>
    ELSE IF Head(raw) = "+" THEN <<" ">> \o urlDecode(Tail(raw))
    ELSE IF Head(raw) = "%" /\ Len(raw) >= 3
            /\ raw[2] \in HexDigits /\ raw[3] \in HexDigits
         THEN <<percentChar(raw[2], raw[3])>> \o urlDecode(SubSeq(raw, 4, Len(raw)))
    ELSE <<Head(raw)>> \o urlDecode(Tail(raw))

\* A lone surrogate code unit (an ill-formed UTF-16 string).
LoneSurrogate == "\\uD800"

\* encodeURIComponent on one character: unreserved characters stay, the
\* others become the percent escapes of their UTF-8 bytes.
encodeChar(c) ==
    CASE c = " " -> <<"%", "2", "0">>
      [] c = "%" -> <<"%", "2", "5">>
      [] c = "+" -> <<"%", "2", "B">>
      [] OTHER -> <<c>>

RECURSIVE encodeURIComponent(_)
encodeURIComponent(s) ==
    IF s = <<>> THEN <<>> ELSE encodeChar(Head(s)) \o encodeURIComponent(Tail(s))

\* encodeURIComponent throws URIError on a lone surrogate.
throwsURIError(s) == \E i \in 1..Len(s) : s[i] = LoneSurrogate

WhiteSpace == {" "}

RECURSIVE trimStart(_)
trimStart(s) ==
    IF s # <<>> /\ Head(s) \in WhiteSpace THEN trimStart(Tail(s)) ELSE s

RECURSIVE trimEnd(_)
trimEnd(s) ==
    IF s # <<>> /\ s[Len(s)] \in WhiteSpace
    THEN trimEnd(SubSeq(s, 1, Len(s) - 1)) ELSE s

\* String.prototype.trim
trim(s) == trimEnd(trimStart(s))

\* A request URL: whether the query string has a flightNumber key, and the
\* raw (still encoded) value.
Url(has, raw) == [hasFlightNumber |-> has, raw |-> raw]
NoParamUrl == Url(FALSE, <<>>)

\* new URL(request.url).searchParams.get('flightNumber')
searchParams_get(u) ==
    IF u.hasFlightNumber THEN String(urlDecode(u.raw)) ELSE null

\* ------------------------------------------------------------ store
\* A Flight record.  The fields GET never reads (origin, destination,
\* departureTime, arrivalTime) are carried along unchanged by filter and are
\* left out; airline, status and gate tell records of one number apart.
Flight(number, airline, status, gate) ==
    [flightNumber |-> number, airline |-> airline, status |-> status, gate |-> gate]

MOCK_FLIGHTS ==
    << Flight(<<"A", "A", "1", "2", "3">>, "American Airlines", "On Time", "B12"),
       Flight(<<"U", "A", "4", "5", "6">>, "United Airlines", "Delayed", "G4"),
       Flight(<<"D", "L", "7", "8", "9">>, "Delta", "Boarding", "E14") >>

\* Flights a store of the store-generic specification is drawn from: two
\* records sharing a flightNumber, numbers differing in case only, and
\* numbers that are substrings of one another.
FlightPool ==
    { Flight(<<"A", "A", "1">>, "American Airlines", "On Time", "B12"),
      Flight(<<"A", "A", "1">>, "Codeshare", "Delayed", "C3"),
      Flight(<<"a", "1">>, "Regional", "Boarding", "A1"),
      Flight(<<"U", "A">>, "United Airlines", "On Time", "G4"),
      Flight(<<"1", "1">>, "Charter", "On Time", "D2") }

Stores == UNION {[1..k -> FlightPool] : k \in 0..MaxStoreLen}

\* ------------------------------------------------------------ requests
\* Requests sent straight to the endpoint: no parameter, an empty one, and
\* queries that match one, two or no record of MOCK_FLIGHTS.
RequestUrls ==
    { NoParamUrl,
      Url(TRUE, <<>>),
      Url(TRUE, <<"A", "A", "1", "2", "3">>),
      Url(TRUE, <<"a", "a">>),
      Url(TRUE, <<"A">>),
      Url(TRUE, <<"u", "a", "4">>),
      Url(TRUE, <<"Z", "Z", "9", "9", "9">>),
      Url(TRUE, <<"1", "2", "4">>) }

QueryChars == {"A", "a", "1"}

\* Requests of the store-generic specification: every query up to MaxQueryLen.
GeneratedUrls ==
    {NoParamUrl} \cup {Url(TRUE, q) : q \in StringsUpTo(QueryChars, MaxQueryLen)}

\* ------------------------------------------------------------ responses
ErrorBody(message) == [isArray |-> FALSE, error |-> message, items |-> <<>>]
ArrayBody(items) == [isArray |-> TRUE, error |-> "", items |-> items]

\* NextResponse.json(body, { status })
NextResponse_json(body, status) == [status |-> status, body |-> body]

BadRequest == NextResponse_json(ErrorBody("Flight number is required"), 400)

\* Mutant of isFalsy: the check written as flightNumber === null.
isFalsy_nullOnly(v) == v.isNull

\* !flightNumber : null and the empty string are falsy.
isFalsy(v) == v.isNull \/ v.str = <<>>

\* Mutant of filterFlights: the query is not lower-cased.
filterFlights_caseSensitive(flights, q) ==
    SelectSeq(flights, LAMBDA flight : includes(toLowerCase(flight.flightNumber), q))

\* Mutant of filterFlights: the result is built by prepending each match.
filterFlights_reversed(flights, q) ==
    LET kept == SelectSeq(flights,
                   LAMBDA flight : includes(toLowerCase(flight.flightNumber), toLowerCase(q)))
    IN  [i \in 1..Len(kept) |-> kept[Len(kept) + 1 - i]]

\* MOCK_FLIGHTS.filter(flight =>
\*     flight.flightNumber.toLowerCase().includes(flightNumber.toLowerCase()))
filterFlights(flights, q) ==
    SelectSeq(flights,
              LAMBDA flight : includes(toLowerCase(flight.flightNumber), toLowerCase(q)))

\* ------------------------------------------------------------ state
VARIABLES
    store,         \* the module-level array MOCK_FLIGHTS
    pc,            \* pc[r]: where request r is
    url,           \* url[r]: request.url of request r
    flightNumber,  \* flightNumber[r]: the local of GET, string | null
    matches,       \* matches[r]: the local of GET
    responses,     \* responses[r]: the responses emitted for request r
    query,         \* Home's state: the text of the input
    flights,       \* Home's state: the list shown
    loading,       \* Home's state
    error,         \* Home's state: "" or the message shown
    hasSearched,   \* Home's state
    callPc,        \* callPc[k]: where the k-th call of handleSearch is
    callUrl,       \* callUrl[k]: the URL the k-th call fetches
    callRes        \* callRes[k]: the Response the k-th call's fetch resolved to

serverVars == <<store, pc, url, flightNumber, matches, responses>>
pageVars == <<query, flights, loading, error, hasSearched, callPc, callUrl, callRes>>
vars == <<store, pc, url, flightNumber, matches, responses,
          query, flights, loading, error, hasSearched, callPc, callUrl, callRes>>

Terminal == {"Success", "ValidationFailed"}

InitRequests ==
    /\ pc = [r \in Requests |-> "Idle"]
    /\ url = [r \in Requests |-> NoParamUrl]
    /\ flightNumber = [r \in Requests |-> null]
    /\ matches = [r \in Requests |-> <<>>]
    /\ responses = [r \in Requests |-> <<>>]

\* A response that stands for "no response yet" in callRes.
NoResponse == [status |-> 0, body |-> ErrorBody("")]

\* Home's useState initial values; no call of handleSearch has been made.
InitPage ==
    /\ query = <<>>
    /\ flights = <<>>
    /\ loading = FALSE
    /\ error = ""
    /\ hasSearched = FALSE
    /\ callPc = [k \in Requests |-> "none"]
    /\ callUrl = [k \in Requests |-> NoParamUrl]
    /\ callRes = [k \in Requests |-> NoResponse]

Init ==
    /\ store = MOCK_FLIGHTS
    /\ InitRequests
    /\ InitPage

\* ------------------------------------------------------------ the handler
\* The framework receives a request for the route and is about to run GET.
Accept(r, u) ==
    /\ pc[r] = "Idle"
    /\ pc' = [pc EXCEPT ![r] = "Validating"]
    /\ url' = [url EXCEPT ![r] = u]
    /\ UNCHANGED <<store, flightNumber, matches, responses>>
    /\ UNCHANGED pageVars

\* Mutant of GET_start: the delay is a blocking wait, so no handler starts
\* while another one is waiting.
GET_start_exclusive(r) ==
    /\ pc[r] = "Validating"
    /\ \A o \in Requests : pc[o] # "Delay"
    /\ LET fn == searchParams_get(url[r]) IN
         /\ flightNumber' = [flightNumber EXCEPT ![r] = fn]
         /\ IF isFalsy(fn)
            THEN /\ responses' = [responses EXCEPT ![r] = Append(@, BadRequest)]
                 /\ pc' = [pc EXCEPT ![r] = "ValidationFailed"]
                 /\ UNCHANGED matches
            ELSE /\ matches' = [matches EXCEPT ![r] = filterFlights(store, fn.str)]
                 /\ pc' = [pc EXCEPT ![r] = "Delay"]
                 /\ UNCHANGED responses
    /\ UNCHANGED <<store, url>>
    /\ UNCHANGED pageVars

\* Mutant of GET_start: the store is filtered in place.
GET_start_inPlace(r) ==
    /\ pc[r] = "Validating"
    /\ LET fn == searchParams_get(url[r]) IN
         /\ flightNumber' = [flightNumber EXCEPT ![r] = fn]
         /\ IF isFalsy(fn)
            THEN /\ responses' = [responses EXCEPT ![r] = Append(@, BadRequest)]
                 /\ pc' = [pc EXCEPT ![r] = "ValidationFailed"]
                 /\ UNCHANGED <<matches, store>>
            ELSE /\ store' = filterFlights(store, fn.str)
                 /\ matches' = [matches EXCEPT ![r] = filterFlights(store, fn.str)]
                 /\ pc' = [pc EXCEPT ![r] = "Delay"]
                 /\ UNCHANGED responses
    /\ UNCHANGED url
    /\ UNCHANGED pageVars

\* Mutant of GET_start: the await is missing, the matches are returned at once.
GET_start_noDelay(r) ==
    /\ pc[r] = "Validating"
    /\ LET fn == searchParams_get(url[r]) IN
         /\ flightNumber' = [flightNumber EXCEPT ![r] = fn]
         /\ IF isFalsy(fn)
            THEN /\ responses' = [responses EXCEPT ![r] = Append(@, BadRequest)]
                 /\ pc' = [pc EXCEPT ![r] = "ValidationFailed"]
                 /\ UNCHANGED matches
            ELSE /\ matches' = [matches EXCEPT ![r] = filterFlights(store, fn.str)]
                 /\ responses' = [responses EXCEPT ![r] =
                        Append(@, NextResponse_json(ArrayBody(filterFlights(store, fn.str)), 200))]
                 /\ pc' = [pc EXCEPT ![r] = "Success"]
    /\ UNCHANGED <<store, url>>
    /\ UNCHANGED pageVars

\* Mutant of GET_start: the store is filtered before the parameter is checked
\* (a parameter that is present, possibly empty).
GET_start_filterFirst(r) ==
    /\ pc[r] = "Validating"
    /\ LET fn == searchParams_get(url[r]) IN
         /\ flightNumber' = [flightNumber EXCEPT ![r] = fn]
         /\ matches' = [matches EXCEPT ![r] =
                IF fn.isNull THEN <<>> ELSE filterFlights(store, fn.str)]
         /\ IF isFalsy(fn)
            THEN /\ responses' = [responses EXCEPT ![r] = Append(@, BadRequest)]
                 /\ pc' = [pc EXCEPT ![r] = "ValidationFailed"]
            ELSE /\ pc' = [pc EXCEPT ![r] = "Delay"]
                 /\ UNCHANGED responses
    /\ UNCHANGED <<store, url>>
    /\ UNCHANGED pageVars

\* GET from its call to its first suspension: the parameter is read and
\* checked; a missing one is answered 400 at once, otherwise the store is
\* filtered and the handler suspends on the 800 ms timer.
GET_start(r) ==
    /\ pc[r] = "Validating"
    /\ LET fn == searchParams_get(url[r]) IN
         /\ flightNumber' = [flightNumber EXCEPT ![r] = fn]
         /\ IF isFalsy(fn)
            THEN /\ responses' = [responses EXCEPT ![r] = Append(@, BadRequest)]
                 /\ pc' = [pc EXCEPT ![r] = "ValidationFailed"]
                 /\ UNCHANGED matches
            ELSE /\ matches' = [matches EXCEPT ![r] = filterFlights(store, fn.str)]
                 /\ pc' = [pc EXCEPT ![r] = "Delay"]
                 /\ UNCHANGED responses
    /\ UNCHANGED <<store, url>>
    /\ UNCHANGED pageVars

\* Mutant of GET_resume: an empty match set is answered as an error.
GET_resume_emptyIsError(r) ==
    /\ pc[r] = "Delay"
    /\ IF matches[r] = <<>>
       THEN /\ responses' = [responses EXCEPT ![r] =
                   Append(@, NextResponse_json(ErrorBody("Flight not found"), 404))]
            /\ pc' = [pc EXCEPT ![r] = "ValidationFailed"]
       ELSE /\ responses' = [responses EXCEPT ![r] =
                   Append(@, NextResponse_json(ArrayBody(matches[r]), 200))]
            /\ pc' = [pc EXCEPT ![r] = "Success"]
    /\ UNCHANGED <<store, url, flightNumber, matches>>
    /\ UNCHANGED pageVars

\* Mutant of GET_resume: the promise of the delay is never resolved.
GET_resume_unresolved(r) ==
    /\ pc[r] = "Delay"
    /\ FALSE
    /\ UNCHANGED vars

\* The timer fires: GET resumes after the await and returns the matches.
GET_resume(r) ==
    /\ pc[r] = "Delay"
    /\ responses' = [responses EXCEPT
                       ![r] = Append(@, NextResponse_json(ArrayBody(matches[r]), 200))]
    /\ pc' = [pc EXCEPT ![r] = "Success"]
    /\ UNCHANGED <<store, url, flightNumber, matches>>
    /\ UNCHANGED pageVars

Next ==
    \/ \E r \in Requests, u \in RequestUrls : Accept(r, u)
    \/ \E r \in Requests : GET_start(r)
    \/ \E r \in Requests : GET_resume(r)

Spec == Init /\ [][Next]_vars

\* The event loop runs every handler that is ready and fires every timer.
Fairness ==
    \A r \in Requests : WF_vars(GET_start(r)) /\ WF_vars(GET_resume(r))

FairSpec == Spec /\ Fairness

\* ------------------------------------------------------------ the page
\* What the user can type into the input: nothing, a blank, a query that
\* matches, the same with a leading blank, one that matches nothing, and an
\* ill-formed string.
PageInputs ==
    { <<>>,
      <<" ">>,
      <<"a", "a">>,
      <<" ", "a", "a">>,
      <<"Z", "Z", "9">>,
      <<LoneSurrogate>> }

FetchError == "An error occurred while fetching flight details."

\* A response that does not come from GET: a fault of the infrastructure
\* between the page and the handler.
GatewayFault == NextResponse_json(ErrorBody("Bad Gateway"), 502)

\* Response.ok
ok(res) == res.status >= 200 /\ res.status <= 299

\* Mutant of submitEnabled: the button is not disabled while loading.
submitEnabled_always == TRUE

\* <button type="submit" disabled={loading}>: the form can be submitted
\* (by the button or by Enter in the input) only while it is not disabled.
submitEnabled == ~loading

\* The catch and finally blocks of handleSearch, for call k.
catchFinally(k) ==
    /\ error' = FetchError
    /\ loading' = FALSE
    /\ callPc' = [callPc EXCEPT ![k] = "done"]

\* onChange={(e) => setQuery(e.target.value)}
setQuery(v) ==
    /\ v # query
    /\ query' = v
    /\ UNCHANGED <<flights, loading, error, hasSearched, callPc, callUrl, callRes>>
    /\ UNCHANGED serverVars

\* handleSearch from the submit event to its first await: the k-th call
\* resets the page and starts the fetch; encodeURIComponent throwing lands in
\* catch and finally within the same event.
handleSearch(k) ==
    /\ submitEnabled
    /\ callPc[k] = "none"
    /\ \A j \in Requests : j < k => callPc[j] # "none"
    /\ trim(query) # <<>>
    /\ hasSearched' = TRUE
    /\ flights' = <<>>
    /\ IF throwsURIError(query)
       THEN /\ catchFinally(k)
            /\ UNCHANGED callUrl
       ELSE /\ loading' = TRUE
            /\ error' = ""
            /\ callPc' = [callPc EXCEPT ![k] = "fetch"]
            /\ callUrl' = [callUrl EXCEPT ![k] = Url(TRUE, encodeURIComponent(query))]
    /\ UNCHANGED <<query, callRes>>
    /\ UNCHANGED serverVars

\* The request of call k reaches the server.
Deliver(k) ==
    /\ callPc[k] = "fetch"
    /\ Accept(k, callUrl[k])

\* await fetch(...) resolves with a Response: the one GET returned, or a
\* fault of the infrastructure; a response that is not ok is thrown.
fetchResolve(k, res) ==
    /\ callPc[k] = "fetch"
    /\ IF ~ok(res)
       THEN /\ catchFinally(k)
            /\ UNCHANGED <<flights, callRes>>
       ELSE /\ callPc' = [callPc EXCEPT ![k] = "json"]
            /\ callRes' = [callRes EXCEPT ![k] = res]
            /\ UNCHANGED <<flights, loading, error>>
    /\ UNCHANGED <<query, hasSearched, callUrl>>
    /\ UNCHANGED serverVars

\* await fetch(...) rejects: the request or its response was lost.
fetchReject(k) ==
    /\ callPc[k] = "fetch"
    /\ catchFinally(k)
    /\ UNCHANGED <<query, flights, hasSearched, callUrl, callRes>>
    /\ UNCHANGED serverVars

\* await res.json() resolves: setFlights(data), then finally.
jsonResolve(k) ==
    /\ callPc[k] = "json"
    /\ flights' = callRes[k].body.items
    /\ loading' = FALSE
    /\ callPc' = [callPc EXCEPT ![k] = "done"]
    /\ UNCHANGED <<query, error, hasSearched, callUrl, callRes>>
    /\ UNCHANGED serverVars

\* await res.json() rejects: the body could not be read.
jsonReject(k) ==
    /\ callPc[k] = "json"
    /\ catchFinally(k)
    /\ UNCHANGED <<query, flights, hasSearched, callUrl, callRes>>
    /\ UNCHANGED serverVars

\* The responses the fetch of call k can resolve to.
FetchResponses(k) ==
    {GatewayFault} \cup {responses[k][i] : i \in 1..Len(responses[k])}

NextPage ==
    \/ \E v \in PageInputs : setQuery(v)
    \/ \E k \in Requests : handleSearch(k)
    \/ \E k \in Requests : Deliver(k)
    \/ \E k \in Requests : GET_start(k)
    \/ \E k \in Requests : GET_resume(k)
    \/ \E k \in Requests : \E res \in FetchResponses(k) : fetchResolve(k, res)
    \/ \E k \in Requests : fetchReject(k)
    \/ \E k \in Requests : jsonResolve(k)
    \/ \E k \in Requests : jsonReject(k)

\* The page and the handler serving its requests.
SpecPage == Init /\ [][NextPage]_vars

\* ------------------------------------------------------------ any store
InitStores ==
    /\ store \in Stores
    /\ InitRequests
    /\ InitPage

NextStores ==
    \/ \E u \in GeneratedUrls : Accept(1, u)
    \/ GET_start(1)
    \/ GET_resume(1)

\* One request against every store up to MaxStoreLen.
SpecStores == InitStores /\ [][NextStores]_vars

\* ============================================================ properties
\* sub occurs in s as a contiguous substring: s = pre \o sub \o post.
Contains(s, sub) ==
    \E a \in 0..Len(s) : \E b \in a..Len(s) :
        sub = [k \in 1..(b - a) |-> s[a + k]]

\* The number of positions of seq that hold f.
Count(f, seq) == Cardinality({i \in 1..Len(seq) : seq[i] = f})

\* The flight number of f matches the query q.
Matching(f, q) == Contains(toLowerCase(f.flightNumber), toLowerCase(q))

\* sub is seq with some positions left out, the others in their order.
IsSubsequence(sub, seq) ==
    \E f \in [1..Len(sub) -> 1..Len(seq)] :
        /\ \A i \in 1..Len(sub) : sub[i] = seq[f[i]]
        /\ \A i \in 1..Len(sub) : \A j \in 1..Len(sub) : i < j => f[i] < f[j]

\* The records of st that match q, in the order of st.
RECURSIVE Expected(_, _)
Expected(st, q) ==
    IF st = <<>> THEN <<>>
    ELSE (IF Matching(Head(st), q) THEN <<Head(st)>> ELSE <<>>) \o Expected(Tail(st), q)

\* Request r has been received.
Received(r) == pc[r] # "Idle"

\* The flightNumber parameter of request r is absent or the empty string.
Missing(r) == ~url[r].hasFlightNumber \/ urlDecode(url[r].raw) = <<>>

\* The query of request r (its flightNumber parameter, decoded).
Q(r) == urlDecode(url[r].raw)

Response400 ==
    [status |-> 400,
     body |-> [isArray |-> FALSE, error |-> "Flight number is required", items |-> <<>>]]

Response200(items) ==
    [status |-> 200, body |-> [isArray |-> TRUE, error |-> "", items |-> items]]

\* C1: for every store and every non-empty query, the body GET returns holds
\* each record of the store as often as the store does when its flight number,
\* lower-cased, contains the lower-cased query, and not at all otherwise; it
\* holds nothing that is not in the store.
C1_MatchIffSubstring ==
    \A r \in Requests :
        (Received(r) /\ ~Missing(r) /\ pc[r] = "Success") =>
            /\ Len(responses[r]) = 1
            /\ responses[r][1].status = 200
            /\ responses[r][1].body.isArray
            /\ LET body == responses[r][1].body.items IN
                 /\ \A i \in 1..Len(body) : \E j \in 1..Len(store) : body[i] = store[j]
                 /\ \A j \in 1..Len(store) :
                        Count(store[j], body) =
                            IF Matching(store[j], Q(r)) THEN Count(store[j], store) ELSE 0

\* C1 witness: a store with two records of one flight number around a record
\* that does not match; the two are returned and the third is not.
C1_Witness ==
    /\ pc[1] = "Success"
    /\ Len(store) = 3
    /\ store[1].flightNumber = store[3].flightNumber
    /\ store[1] # store[3]
    /\ Q(1) = <<"a", "1">>
    /\ responses[1][1].body.items = <<store[1], store[3]>>

\* C2: a request without flightNumber, or with the empty string, is answered
\* 400 with the fixed body and nothing else, whatever the other requests do.
C2_MissingIs400 ==
    \A r \in Requests :
        (Received(r) /\ Missing(r)) =>
            /\ pc[r] \in {"Validating", "ValidationFailed"}
            /\ responses[r] = IF pc[r] = "ValidationFailed" THEN <<Response400>> ELSE <<>>

\* C2 witness: an absent and an empty parameter have both been answered.
C2_Witness ==
    \E a \in Requests : \E b \in Requests :
        /\ pc[a] = "ValidationFailed" /\ ~url[a].hasFlightNumber
        /\ pc[b] = "ValidationFailed" /\ url[b].hasFlightNumber /\ url[b].raw = <<>>
        /\ responses[a] = <<Response400>>
        /\ responses[b] = <<Response400>>

\* C3: a request whose non-empty query matches no record ends in Success with
\* status 200 and an empty array, never in ValidationFailed.
C3_NoMatchIs200Empty ==
    \A r \in Requests :
        (Received(r) /\ ~Missing(r)
            /\ \A j \in 1..Len(store) : ~Matching(store[j], Q(r))) =>
            /\ pc[r] \in {"Validating", "Delay", "Success"}
            /\ responses[r] = IF pc[r] = "Success" THEN <<Response200(<<>>)>> ELSE <<>>

\* C3 witness: the query ZZ999 has been answered.
C3_Witness ==
    \E r \in Requests :
        /\ pc[r] = "Success"
        /\ Q(r) = <<"Z", "Z", "9", "9", "9">>
        /\ responses[r] = <<Response200(<<>>)>>

\* C4: every returned array is a subsequence of the store, in store order, and
\* two requests with the same query return the same array.
C4_OrderPreservingIdempotent ==
    /\ \A r \in Requests :
           pc[r] = "Success" => IsSubsequence(responses[r][1].body.items, store)
    /\ \A a \in Requests : \A b \in Requests :
           (pc[a] = "Success" /\ pc[b] = "Success" /\ Q(a) = Q(b)) =>
               responses[a] = responses[b]

\* C4 witness: two requests with the query A, each answered with the two
\* records AA123 and UA456.
C4_Witness ==
    \E a \in Requests : \E b \in Requests :
        /\ a # b
        /\ pc[a] = "Success" /\ pc[b] = "Success"
        /\ Q(a) = <<"A">> /\ Q(b) = <<"A">>
        /\ Len(responses[a][1].body.items) = 2

\* C5: while a request waits in the delay, every other request can take its
\* next step (be accepted, run the handler, be answered), and what a request
\* holds and returns is the match of its own query alone.
C5_DelayHoldsNothing ==
    /\ \A r \in Requests : \A o \in Requests :
           (pc[r] = "Delay" /\ o # r) =>
               /\ pc[o] = "Idle" => ENABLED (\E u \in RequestUrls : Accept(o, u))
               /\ pc[o] = "Validating" => ENABLED GET_start(o)
               /\ pc[o] = "Delay" => ENABLED GET_resume(o)
    /\ \A r \in Requests :
           /\ pc[r] = "Delay" =>
                  matches[r] = Expected(MOCK_FLIGHTS, Q(r)) /\ responses[r] = <<>>
           /\ pc[r] = "Success" =>
                  responses[r] = <<Response200(Expected(MOCK_FLIGHTS, Q(r)))>>

\* C5 witness: a request was accepted, matched and answered while another one
\* was, and still is, waiting in the delay.
C5_Witness ==
    \E r \in Requests : \E o \in Requests :
        /\ pc[r] = "Delay" /\ Q(r) = <<"a", "a">>
        /\ pc[o] = "Success" /\ Q(o) = <<"u", "a", "4">>

\* C6: the store is the seed array in every reachable state.
C6_StoreReadOnly == store = MOCK_FLIGHTS

\* C6 witness: a request was answered with matches and another was refused.
C6_Witness ==
    \E a \in Requests : \E b \in Requests :
        /\ pc[a] = "Success" /\ responses[a][1].body.items # <<>>
        /\ pc[b] = "ValidationFailed"

\* The state of the handler's state machine: waiting in the delay is part of
\* Validating, the only state between Idle and the terminal states.
HandlerState(r) == IF pc[r] = "Delay" THEN "Validating" ELSE pc[r]

\* C7: every accepted request eventually reaches Success or ValidationFailed,
\* by Idle -> Validating -> terminal; it has one response exactly when it is
\* terminal and none before, and a terminal request never changes again.
C7_RunsToCompletion ==
    /\ \A r \in Requests : (pc[r] # "Idle") ~> (pc[r] \in Terminal)
    /\ [](\A r \in Requests :
             Len(responses[r]) = IF pc[r] \in Terminal THEN 1 ELSE 0)
    /\ [][\A r \in Requests :
             /\ HandlerState(r)' # HandlerState(r) =>
                    \/ HandlerState(r) = "Idle" /\ HandlerState(r)' = "Validating"
                    \/ HandlerState(r) = "Validating" /\ HandlerState(r)' \in Terminal
             /\ pc[r] \in Terminal => (pc'[r] = pc[r] /\ responses'[r] = responses[r])
         ]_vars

\* C7 witness: one request ended in Success and one in ValidationFailed.
C7_Witness ==
    \E a \in Requests : \E b \in Requests :
        /\ pc[a] = "Success" /\ Len(responses[a]) = 1
        /\ pc[b] = "ValidationFailed" /\ Len(responses[b]) = 1

\* C8 as stated: every response is emitted by a request that is waiting in
\* the delay.
C8_EveryResponseAfterDelay ==
    [][\A r \in Requests : responses'[r] # responses[r] => pc[r] = "Delay"]_vars

\* C8 as amended: a 200 response is emitted only by a request waiting in the
\* delay and carries the matches computed before the delay; a request in the
\* delay has its matches and no response yet; the only response emitted
\* without the delay is the 400 of a missing parameter.
C8_SuccessAfterDelay ==
    [][\A r \in Requests :
          /\ responses'[r] # responses[r] =>
                \/ /\ pc[r] = "Delay"
                   /\ responses[r] = <<>>
                   /\ responses'[r] = <<Response200(matches[r])>>
                \/ /\ pc[r] = "Validating"
                   /\ Missing(r)
                   /\ responses'[r] = <<Response400>>
          /\ pc'[r] = "Delay" =>
                /\ responses'[r] = <<>>
                /\ matches'[r] = Expected(store, Q(r))
      ]_vars

\* C8 witness: a request answered 200 after its delay, another answered 400.
C8_Witness ==
    \E a \in Requests : \E b \in Requests :
        /\ pc[a] = "Success" /\ responses[a] = <<Response200(matches[a])>>
        /\ matches[a] # <<>>
        /\ pc[b] = "ValidationFailed" /\ responses[b] = <<Response400>>

\* C9: the filter never runs with an empty query: a request that got past the
\* check holds a non-empty flightNumber, and a request with a missing
\* parameter holds no matches and is never answered with an array.
C9_NoEmptyQueryReachesFilter ==
    \A r \in Requests :
        /\ pc[r] \in {"Delay", "Success"} =>
               ~flightNumber[r].isNull /\ flightNumber[r].str # <<>>
        /\ (Received(r) /\ Missing(r)) =>
               /\ matches[r] = <<>>
               /\ \A i \in 1..Len(responses[r]) : ~responses[r][i].body.isArray

\* C9 witness: a request with flightNumber= (empty) was refused.
C9_Witness ==
    \E r \in Requests :
        /\ url[r] = Url(TRUE, <<>>)
        /\ pc[r] = "ValidationFailed"
        /\ flightNumber[r] = String(<<>>)
        /\ matches[r] = <<>>

\* The calls of handleSearch that are between their submit and their finally.
InFlight == {k \in Requests : callPc[k] \in {"fetch", "json"}}

\* C10: the page never shows an error together with flights, loading is true
\* exactly while a call of handleSearch is in flight, and at most one is.
C10_PageConsistent ==
    /\ ~(error # "" /\ flights # <<>>)
    /\ loading <=> (InFlight # {})
    /\ Cardinality(InFlight) <= 1

\* C10 witness: after a search that showed a flight, a second search is in
\* flight and the list has been cleared.
C10_Witness ==
    /\ callPc[1] = "done"
    /\ callRes[1].body.items # <<>>
    /\ callPc[2] = "json"
    /\ loading
    /\ flights = <<>>
    /\ error = ""

====
